---- MODULE Spec2Model ----
(***************************************************************************)
(* Verification model of the scheduled ETL pipelines of dags-testing:      *)
(*   crypto_price_dag     (src/crypto_prices/crypto_prices.py)             *)
(*   healthcare_joblist   (src/healthcare_joblist/healthcare.py)           *)
(*   self_confidence_dag  (src/quotes/self_confidence.py)                  *)
(*   the quotes script    (src/quotes/quotes.py)                           *)
(* One behaviour follows one pipeline through successive Runs against one  *)
(* relational sink.  Task callables are translated step by step; the task  *)
(* instance life cycle (default trigger rule all_success, retries,         *)
(* ShortCircuitOperator) is the one the DAG files ask the scheduler for.   *)
(***************************************************************************)
EXTENDS Integers, Sequences, FiniteSets, TLC

\* ------------------------------------------------------------------ bounds
\* Number of Runs of the pipeline followed in one behaviour.
MaxRuns == 2
\* Longest list of job postings the LinkedIn API answers with.
MaxBatch == 2

\* ------------------------------------------------------- program constants
\* check_send_time: logical_date.hour == 8
SendHour == 8
\* retries of crypto_price_dag tasks (default_args)
CryptoRetries == 1
\* retries of self_confidence_dag tasks (default_args)
SelfConfRetries == 1

\* Logical hours a Run of the hourly crypto_price_dag is given (a sample of
\* 0..23: the send hour and another).
Hours == {8, 9}

Dags == {"crypto_price_dag", "healthcare_joblist", "self_confidence_dag", "quotes"}

\* ------------------------------------------------------------- task graphs
TasksOf(d) ==
  CASE d = "crypto_price_dag" ->
         {"fetch_crypto_prices", "insert_into_postgres", "check_send_time", "send_email"}
    [] d = "healthcare_joblist" ->
         {"fetch_data", "transform_data", "load_to_postgres"}
    [] d = "self_confidence_dag" ->
         {"fetch_quote", "send_csv_email", "load_quote"}
    [] OTHER -> {"quotes_main"}

AllTasks == UNION {TasksOf(d) : d \in Dags}

\* Variant: the gate as a branch beside the loader, fed by the fetcher alone.
UpstreamGateBesideLoader(t) ==
  CASE t = "insert_into_postgres" -> {"fetch_crypto_prices"}
    [] t = "check_send_time"      -> {"fetch_crypto_prices"}
    [] t = "send_email"           -> {"check_send_time"}
    [] t = "transform_data"       -> {"fetch_data"}
    [] t = "load_to_postgres"     -> {"transform_data"}
    [] t = "send_csv_email"       -> {"fetch_quote"}
    [] t = "load_quote"           -> {"fetch_quote"}
    [] OTHER                      -> {}

\* Variant: self_confidence_dag as a chain, the loader behind the notifier.
UpstreamLoaderBehindNotifier(t) ==
  CASE t = "insert_into_postgres" -> {"fetch_crypto_prices"}
    [] t = "check_send_time"      -> {"fetch_crypto_prices", "insert_into_postgres"}
    [] t = "send_email"           -> {"check_send_time"}
    [] t = "transform_data"       -> {"fetch_data"}
    [] t = "load_to_postgres"     -> {"transform_data"}
    [] t = "send_csv_email"       -> {"fetch_quote"}
    [] t = "load_quote"           -> {"fetch_quote", "send_csv_email"}
    [] OTHER                      -> {}

\* Direct upstream tasks, from the >> lines of each DAG file.
Upstream(t) ==
  CASE t = "insert_into_postgres" -> {"fetch_crypto_prices"}
    [] t = "check_send_time"      -> {"fetch_crypto_prices", "insert_into_postgres"}
    [] t = "send_email"           -> {"check_send_time"}
    [] t = "transform_data"       -> {"fetch_data"}
    [] t = "load_to_postgres"     -> {"transform_data"}
    [] t = "send_csv_email"       -> {"fetch_quote"}
    [] t = "load_quote"           -> {"fetch_quote"}
    [] OTHER                      -> {}

RECURSIVE Ancestors(_)
Ancestors(t) == Upstream(t) \cup UNION {Ancestors(u) : u \in Upstream(t)}

Descendants(t) == {d \in AllTasks : t \in Ancestors(d)}

\* The retry count a task is declared with; healthcare_joblist's default_args
\* set none, which leaves the scheduler's default of 0, as for the plain script.
Retries(t) ==
  CASE t \in TasksOf("crypto_price_dag")    -> CryptoRetries
    [] t \in TasksOf("self_confidence_dag") -> SelfConfRetries
    [] OTHER                                -> 0

Terminal == {"Succeeded", "Failed", "UpstreamFailed", "Skipped"}

\* ------------------------------------------------------------------- state
VARIABLES
  dag,      \* the pipeline this behaviour follows
  run,      \* number of the current Run
  hour,     \* hour of the current Run's logical timestamp
  state,    \* task instance state of each task in the current Run
  tries,    \* attempts started of each task in the current Run
  pc,       \* position of each task's callable
  xcom,     \* inter-task channel: value stored for each task in this Run
  err,     \* exception that ended each task's last attempt ("" when none)
  conns,    \* sink connections that have been opened and not closed
  table,    \* committed rows of the pipeline's sink table, in insertion order
  mailbox,  \* delivered mail messages
  deliveries, \* SMTP deliveries the notifier attempted in the current Run
  resp,     \* the HTTP response the fetcher's last call received
  loads,    \* load attempts (this Run's, and the committed ones of earlier
            \* Runs): batch tag, size, outcome, rows reported
  gates     \* every evaluation of the gate so far: the hour given, the answer

vars == <<dag, run, hour, state, tries, pc, xcom, err, conns, table, mailbox, deliveries, resp, loads, gates>>

Tasks == TasksOf(dag)

NoValue == [kind |-> "none", val |-> <<>>]


\* ------------------------------------------------------- scheduler helpers
\* Variant: trigger rule one_success.
UpstreamDoneOne(t) == Upstream(t) = {} \/ \E u \in Upstream(t) : state[u] = "Succeeded"

\* Variant: trigger rule all_done.
UpstreamDoneAllDone(t) == \A u \in Upstream(t) : state[u] \in {"Succeeded", "Failed"}

\* Variant: trigger rule always.
UpstreamDoneAlways(t) == TRUE

\* Default trigger rule (all_success): every declared upstream is Succeeded.
UpstreamDone(t) == \A u \in Upstream(t) : state[u] = "Succeeded"

\* Variant: a scheduler that never gives up on a task behind a failed one.
UpstreamBrokenNever(t) == FALSE

\* An upstream that can no longer succeed.
UpstreamBroken(t) == \E u \in Upstream(t) : state[u] \in {"Failed", "UpstreamFailed"}

\* Variant: one retry too many.
FailStateOffByOne(t) == IF tries[t] <= Retries(t) + 1 THEN "UpForRetry" ELSE "Failed"

\* State of a task whose attempt raised: retried while try_number <= retries.
FailState(t) == IF tries[t] <= Retries(t) THEN "UpForRetry" ELSE "Failed"

\* Variant: a gate that skips nothing.
GateSkipsNone(t) == {}

\* Tasks a ShortCircuitOperator marks skipped when its callable returns false.
GateSkips(t) == Descendants(t) \cap Tasks

Raise(t, e) ==
  /\ state' = [state EXCEPT ![t] = FailState(t)]
  /\ err' = [err EXCEPT ![t] = e]
  /\ pc' = [pc EXCEPT ![t] = "done"]

Succeed(t) ==
  /\ state' = [state EXCEPT ![t] = "Succeeded"]
  /\ err' = [err EXCEPT ![t] = ""]
  /\ pc' = [pc EXCEPT ![t] = "done"]

Goto(t, l) ==
  /\ pc' = [pc EXCEPT ![t] = l]
  /\ UNCHANGED <<state, err>>

At(t, l) == t \in Tasks /\ state[t] = "Running" /\ pc[t] = l

\* ------------------------------------------------------------ sink helpers
\* The batch tag of the attempt a task is making: (run, try_number).
Tag(t) == <<run, tries[t]>>

\* The connection the current attempt of task t holds.
MyConn(t) == {c \in conns : c.task = t /\ c.batch = Tag(t)}

OpenConn(t) == conns \cup {[task |-> t, batch |-> Tag(t), pending |-> <<>>]}

\* cursor.execute inside the open transaction: the row joins the
\* connection's uncommitted work.
ExecOn(t, row) ==
  {IF c \in MyConn(t) THEN [c EXCEPT !.pending = Append(@, row)] ELSE c : c \in conns}

\* Variant: a connection in autocommit mode.
TableAfterExecuteAutocommit(tbl, row) == Append(tbl, row)

\* What a statement executed on a connection does to the committed table:
\* nothing, the connections run with autocommit off.
TableAfterExecute(tbl, row) == tbl

\* Variant: a commit that drops the rows whose data the table already holds.
CommitDedup(tbl, pending) ==
  tbl \o SelectSeq(pending, LAMBDA r : \A i \in 1..Len(tbl) : [tbl[i] EXCEPT !.batch = r.batch] # r)

\* connection.commit(): the transaction's rows become visible together.
Commit(tbl, pending) == tbl \o pending

\* connection.close()
CloseConn(t) == conns \ MyConn(t)

PendingOf(t) == (CHOOSE c \in MyConn(t) : TRUE).pending

\* Record of a load attempt: its batch tag, the rows it was given, how it
\* ended, and the rows its own output reported as inserted.
StartLoad(t, n) ==
  loads \cup {[task |-> t, batch |-> Tag(t), size |-> n, outcome |-> "running", reported |-> 0]}

EndLoad(t, o) ==
  {IF l.task = t /\ l.batch = Tag(t) THEN [l EXCEPT !.outcome = o] ELSE l : l \in loads}

Reported(t, n) ==
  {IF l.task = t /\ l.batch = Tag(t) THEN [l EXCEPT !.reported = @ + n] ELSE l : l \in loads}

\* The load attempts whose transaction was committed.
CommittedLoads == {l \in loads : l.outcome = "committed"}

\* The rows a sequence of executed statements leaves in the committed table
\* before any commit.
RECURSIVE ExecAll(_, _)
ExecAll(tbl, rows) ==
  IF rows = <<>> THEN tbl ELSE ExecAll(TableAfterExecute(tbl, Head(rows)), Tail(rows))

\* ------------------------------------------------------------------- Init
NoResponse == [status |-> 0, body |-> [none |-> 0]]

Init ==
  /\ dag \in Dags
  /\ run = 1
  /\ hour \in (IF dag = "crypto_price_dag" THEN Hours ELSE {0})
  /\ state = [t \in TasksOf(dag) |-> "Pending"]
  /\ tries = [t \in TasksOf(dag) |-> 0]
  /\ pc = [t \in TasksOf(dag) |-> "idle"]
  /\ xcom = [t \in TasksOf(dag) |-> NoValue]
  /\ err = [t \in TasksOf(dag) |-> ""]
  /\ conns = {}
  /\ table = <<>>
  /\ mailbox = {}
  /\ deliveries = 0
  /\ resp = NoResponse
  /\ loads = {}
  /\ gates = <<>>

\* --------------------------------------------------------------- scheduler
\* A task instance starts an attempt: Pending (or waiting for its retry)
\* -> Running, once its trigger rule is met.  Starting an attempt clears the
\* value a previous attempt stored.
Schedule(t) ==
  /\ t \in Tasks
  /\ state[t] \in {"Pending", "UpForRetry"}
  /\ UpstreamDone(t)
  /\ state' = [state EXCEPT ![t] = "Running"]
  /\ tries' = [tries EXCEPT ![t] = @ + 1]
  /\ pc' = [pc EXCEPT ![t] = "start"]
  /\ xcom' = [xcom EXCEPT ![t] = NoValue]
  /\ UNCHANGED <<dag, gates, run, hour, err, conns, table, mailbox, deliveries, resp, loads>>

\* A task whose upstream can no longer succeed is never run.
MarkUpstreamFailed(t) ==
  /\ t \in Tasks
  /\ state[t] = "Pending"
  /\ UpstreamBroken(t)
  /\ state' = [state EXCEPT ![t] = "UpstreamFailed"]
  /\ UNCHANGED <<dag, gates, run, hour, tries, pc, xcom, err, conns, table, mailbox, deliveries, resp, loads>>

\* The next scheduling interval: a new Run with fresh task instances.  The
\* worker processes of the finished Run have exited, which drops whatever
\* connection they still held; the sink's table and the mailbox live on.
\* Of the finished Run's load attempts the log keeps the committed ones, the
\* others have left nothing behind.
NextRun ==
  /\ \A t \in Tasks : state[t] \in Terminal
  /\ run < MaxRuns
  /\ run' = run + 1
  /\ hour' \in (IF dag = "crypto_price_dag" THEN Hours ELSE {0})
  /\ state' = [t \in Tasks |-> "Pending"]
  /\ tries' = [t \in Tasks |-> 0]
  /\ pc' = [t \in Tasks |-> "idle"]
  /\ xcom' = [t \in Tasks |-> NoValue]
  /\ err' = [t \in Tasks |-> ""]
  /\ conns' = {}
  /\ resp' = NoResponse
  /\ deliveries' = 0
  /\ loads' = CommittedLoads
  /\ UNCHANGED <<dag, gates, table, mailbox>>

\* -------------------------------------------------------- crypto_price_dag
Coins == {"bitcoin", "ethereum", "binancecoin"}

CryptoBody(p) == [c \in Coins |-> [usd |-> p, usd_24h_change |-> 1]]

\* Responses of the price API: no response (status 0: the request raised),
\* a rejected request, a full body, and a 2xx body lacking one coin.
CryptoResponses ==
  {[status |-> 0, body |-> [none |-> 0]], [status |-> 429, body |-> [message |-> 0]]}
    \cup {[status |-> 200, body |-> b] :
            b \in {CryptoBody(50000), [c \in Coins \ {"binancecoin"} |-> CryptoBody(50000)[c]]}}

\* response.raise_for_status()
IsHttpError(status) == status >= 400 /\ status < 600

CryptoRecords(data) ==
  << [symbol |-> "BTC", price_usd |-> data["bitcoin"].usd, change_24h |-> data["bitcoin"].usd_24h_change],
     [symbol |-> "ETH", price_usd |-> data["ethereum"].usd, change_24h |-> data["ethereum"].usd_24h_change],
     [symbol |-> "BNB", price_usd |-> data["binancecoin"].usd, change_24h |-> data["binancecoin"].usd_24h_change] >>

FetchCryptoPrices ==
  LET t == "fetch_crypto_prices" IN
  /\ At(t, "start")
  /\ \E r \in CryptoResponses :
       /\ resp' = r
       /\ IF r.status = 0 \/ IsHttpError(r.status)
            THEN Raise(t, "ValueError") /\ UNCHANGED xcom
            ELSE IF ~ (Coins \subseteq DOMAIN r.body)
              THEN Raise(t, "KeyError") /\ UNCHANGED xcom
              ELSE /\ Succeed(t)
                   /\ xcom' = [xcom EXCEPT ![t] = [kind |-> "list", val |-> CryptoRecords(r.body)]]
  /\ UNCHANGED <<dag, gates, run, hour, tries, conns, table, mailbox, deliveries, loads>>

\* The row an INSERT of the crypto loader writes; NOW() is the time of the
\* attempt's transaction, which the batch tag stands for.
CryptoRow(t, rec) ==
  [symbol |-> rec.symbol, price_usd |-> rec.price_usd, change_24h |-> rec.change_24h,
   batch |-> Tag(t)]

\* xcom_pull, the emptiness check and pg_hook.get_conn()
InsertConnect ==
  LET t == "insert_into_postgres"
      data == xcom["fetch_crypto_prices"].val
  IN
  /\ At(t, "start")
  /\ \E ok \in BOOLEAN :
       IF data = <<>>
         THEN Raise(t, "ValueError") /\ UNCHANGED <<conns, loads>>
         ELSE IF ok
           THEN /\ conns' = OpenConn(t)
                /\ loads' = StartLoad(t, Len(data))
                /\ Goto(t, "insert")
           ELSE Raise(t, "OperationalError") /\ UNCHANGED <<conns, loads>>
  /\ UNCHANGED <<dag, gates, run, hour, tries, xcom, table, mailbox, deliveries, resp>>

\* One pass of the for loop: cursor.execute(insert_query, ...).  A failing
\* statement leaves the function at once: nothing closes the connection.
InsertRow ==
  LET t == "insert_into_postgres"
      data == xcom["fetch_crypto_prices"].val
      i == Len(PendingOf(t)) + 1
  IN
  /\ At(t, "insert")
  /\ \E ok \in BOOLEAN :
       IF ok
         THEN /\ conns' = ExecOn(t, CryptoRow(t, data[i]))
              /\ table' = TableAfterExecute(table, CryptoRow(t, data[i]))
              /\ Goto(t, IF i = Len(data) THEN "commit" ELSE "insert")
              /\ UNCHANGED loads
         ELSE /\ Raise(t, "DatabaseError")
              /\ loads' = EndLoad(t, "raised")
              /\ UNCHANGED <<conns, table>>
  /\ UNCHANGED <<dag, gates, run, hour, tries, xcom, mailbox, deliveries, resp>>

\* connection.commit()
InsertCommit ==
  LET t == "insert_into_postgres" IN
  /\ At(t, "commit")
  /\ \E ok \in BOOLEAN :
       IF ok
         THEN /\ table' = Commit(table, PendingOf(t))
              /\ conns' = {IF c \in MyConn(t) THEN [c EXCEPT !.pending = <<>>] ELSE c : c \in conns}
              /\ loads' = EndLoad(t, "committed")
              /\ Goto(t, "close")
         ELSE /\ Raise(t, "DatabaseError")
              /\ loads' = EndLoad(t, "raised")
              /\ UNCHANGED <<conns, table>>
  /\ UNCHANGED <<dag, gates, run, hour, tries, xcom, mailbox, deliveries, resp>>

\* cursor.close(); connection.close().  When one of them raises, the commit
\* has already happened and the exception fails the attempt.
InsertClose ==
  LET t == "insert_into_postgres" IN
  /\ At(t, "close")
  /\ \E ok \in BOOLEAN :
       IF ok
         THEN conns' = CloseConn(t) /\ Succeed(t)
         ELSE Raise(t, "InterfaceError") /\ UNCHANGED conns
  /\ UNCHANGED <<dag, gates, run, hour, tries, xcom, table, mailbox, deliveries, resp, loads>>

\* Variant: a gate that reads the clock, which has moved on by one hour when
\* the next Run is evaluated.
check_send_time_now(h) == h + (run - 1) = SendHour

\* check_send_time: logical_date.hour == 8
check_send_time(h) == h = SendHour

\* The ShortCircuitOperator: it succeeds whatever its callable returns, and
\* on false marks its downstream tasks skipped.
CheckSendTime ==
  LET t == "check_send_time"
      go == check_send_time(hour)
  IN
  /\ At(t, "start")
  /\ state' = [u \in Tasks |->
                 IF u = t THEN "Succeeded"
                 ELSE IF ~go /\ u \in GateSkips(t) THEN "Skipped"
                 ELSE state[u]]
  /\ pc' = [pc EXCEPT ![t] = "done"]
  /\ xcom' = [xcom EXCEPT ![t] = [kind |-> "bool", val |-> <<go>>]]
  /\ gates' = Append(gates, [hour |-> hour, go |-> go])
  /\ UNCHANGED <<dag, run, hour, tries, err, conns, table, mailbox, deliveries, resp, loads>>

\* Variant: a notifier that tries a failed delivery a second time itself.
AfterSendmailRedelivering(n, ok) == IF ok THEN n + 1 ELSE n + 2

\* The try block around smtplib: one connection, one sendmail, whether or
\* not it goes through.
AfterSendmail(n, ok) == n + 1

\* report_lines of send_email: one line per record.
Report(data) == [i \in 1..Len(data) |-> <<data[i].symbol, data[i].price_usd, data[i].change_24h>>]

SendEmail ==
  LET t == "send_email"
      data == xcom["fetch_crypto_prices"].val
  IN
  /\ At(t, "start")
  /\ \E ok \in BOOLEAN :
       IF data = <<>>
         THEN Raise(t, "ValueError") /\ UNCHANGED <<mailbox, deliveries>>
         ELSE /\ deliveries' = AfterSendmail(deliveries, ok)
              /\ IF ok
                   THEN /\ mailbox' = mailbox \cup {[task |-> t, batch |-> Tag(t), body |-> Report(data)]}
                        /\ Succeed(t)
                   ELSE Raise(t, "Exception") /\ UNCHANGED mailbox
  /\ UNCHANGED <<dag, gates, run, hour, tries, xcom, conns, table, resp, loads>>

\* ------------------------------------------------------ healthcare_joblist
\* What one element of the API's list looks like to transform_data:
\*   record         a posting the field extraction accepts (its locations_raw
\*                  is absent, empty, or holds an address)
\*   bad_locations  a posting whose locations_raw[0] has no "address": the
\*                  extraction raises KeyError
\*   not_a_dict     an element that is no JSON object: it has no .get
ItemShapes == {"record", "bad_locations", "not_a_dict"}

\* Lists of n items; an item's id is its position in the list.
ItemLists(n) == {[i \in 1..n |-> [id |-> i, shape |-> f[i]]] : f \in [1..n -> ItemShapes]}

\* JSON bodies the API can answer with: a list of items, an object (an error
\* message), or a scalar.
HealthBodies ==
  {[kind |-> "list", val |-> l] : l \in UNION {ItemLists(n) : n \in 0..MaxBatch}}
    \cup {[kind |-> "dict", val |-> <<>>], [kind |-> "scalar", val |-> <<>>]}

HealthResponses ==
  {[status |-> 0, body |-> NoValue], [status |-> 429, body |-> [kind |-> "dict", val |-> <<>>]]}
    \cup {[status |-> 200, body |-> b] : b \in HealthBodies}

\* fetch_data: the body is pushed as it came; len(data) of the print that
\* follows raises on a scalar.
FetchData ==
  LET t == "fetch_data" IN
  /\ At(t, "start")
  /\ \E r \in HealthResponses :
       /\ resp' = r
       /\ IF r.status = 0 \/ IsHttpError(r.status)
            THEN Raise(t, "RequestException") /\ UNCHANGED xcom
            ELSE /\ xcom' = [xcom EXCEPT ![t] = r.body]
                 /\ IF r.body.kind = "scalar" THEN Raise(t, "TypeError") ELSE Succeed(t)
  /\ UNCHANGED <<dag, gates, run, hour, tries, conns, table, mailbox, deliveries, loads>>

\* The for loop of transform_data over items[i..], flattened records so far
\* in acc.  The handler of the inner try prints item.get('id'), which raises
\* again on an item without .get, and that exception leaves the loop.
RECURSIVE FlattenFrom(_, _, _)
FlattenFrom(items, i, acc) ==
  IF i > Len(items) THEN [err |-> "", out |-> acc]
  ELSE IF items[i].shape = "record"
    THEN FlattenFrom(items, i + 1, Append(acc, [id |-> items[i].id]))
  ELSE IF items[i].shape = "not_a_dict"
    THEN [err |-> "AttributeError", out |-> <<>>]
  ELSE FlattenFrom(items, i + 1, acc)

\* transform_data as a function of the pulled raw_data: the error it raises
\* ("" when none) and the records it pushes.
Transform(raw) ==
  IF raw.kind # "list" \/ Len(raw.val) = 0
    THEN [err |-> "ValueError", out |-> <<>>]
    ELSE LET r == FlattenFrom(raw.val, 1, <<>>) IN
         IF r.err # "" THEN r
         ELSE IF r.out = <<>> THEN [err |-> "ValueError", out |-> <<>>]
         ELSE r

TransformData ==
  LET t == "transform_data"
      r == Transform(xcom["fetch_data"])
  IN
  /\ At(t, "start")
  /\ IF r.err # ""
       THEN Raise(t, r.err) /\ UNCHANGED xcom
       ELSE /\ xcom' = [xcom EXCEPT ![t] = [kind |-> "json", val |-> r.out]]
            /\ Succeed(t)
  /\ UNCHANGED <<dag, gates, run, hour, tries, conns, table, mailbox, deliveries, resp, loads>>

HealthRows(t, df) == [i \in 1..Len(df) |-> [id |-> df[i].id, batch |-> Tag(t)]]

\* xcom_pull, pd.read_json and pg_hook.get_conn().  When get_conn raises,
\* conn is unbound: conn.rollback() in the handler and cursor.close() in the
\* finally clause raise in turn.
HealthConnect ==
  LET t == "load_to_postgres"
      df == xcom["transform_data"].val
  IN
  /\ At(t, "start")
  /\ \E ok \in BOOLEAN :
       IF ok
         THEN /\ conns' = OpenConn(t)
              /\ loads' = StartLoad(t, Len(df))
              /\ Goto(t, "batch")
         ELSE Raise(t, "UnboundLocalError") /\ UNCHANGED <<conns, loads>>
  /\ UNCHANGED <<dag, gates, run, hour, tries, xcom, table, mailbox, deliveries, resp>>

\* execute_batch: the statements of the first k rows run; when one fails
\* (k < n) the handler rolls back and re-raises, and the finally clause
\* closes cursor and connection.
HealthBatch ==
  LET t == "load_to_postgres"
      rows == HealthRows(t, xcom["transform_data"].val)
  IN
  /\ At(t, "batch")
  /\ \E k \in 0..Len(rows) :
       /\ table' = ExecAll(table, SubSeq(rows, 1, k))
       /\ IF k = Len(rows)
            THEN /\ conns' = {IF c \in MyConn(t) THEN [c EXCEPT !.pending = rows] ELSE c : c \in conns}
                 /\ Goto(t, "commit")
                 /\ UNCHANGED loads
            ELSE /\ conns' = CloseConn(t)
                 /\ loads' = EndLoad(t, "raised")
                 /\ Raise(t, "DatabaseError")
  /\ UNCHANGED <<dag, gates, run, hour, tries, xcom, mailbox, deliveries, resp>>

\* conn.commit() and the print of the row count, then the finally clause; a
\* failing commit goes through the handler (rollback, raise).
HealthCommit ==
  LET t == "load_to_postgres" IN
  /\ At(t, "commit")
  /\ \E ok \in BOOLEAN :
       IF ok
         THEN /\ table' = Commit(table, PendingOf(t))
              /\ loads' = {IF l.task = t /\ l.batch = Tag(t)
                             THEN [l EXCEPT !.outcome = "committed", !.reported = l.size]
                             ELSE l : l \in loads}
              /\ Succeed(t)
         ELSE /\ loads' = EndLoad(t, "raised")
              /\ Raise(t, "DatabaseError")
              /\ UNCHANGED table
  /\ conns' = CloseConn(t)
  /\ UNCHANGED <<dag, gates, run, hour, tries, xcom, mailbox, deliveries, resp>>

\* ----------------------------------------------------- self_confidence_dag
QuoteKeys == {"quote", "author", "type"}

\* Responses of the quotes API: no response, an error status with a JSON
\* error object, an error status whose body is not JSON, a quote, and a 2xx
\* object lacking the quote's keys.
SelfResponses ==
  { [status |-> 0,   json |-> FALSE, body |-> [message |-> "none"]],
    [status |-> 429, json |-> TRUE,  body |-> [message |-> "rate limit"]],
    [status |-> 502, json |-> FALSE, body |-> [message |-> "html"]],
    [status |-> 200, json |-> TRUE,  body |-> [quote |-> "q", author |-> "a", type |-> "selfconfidence"]],
    [status |-> 200, json |-> TRUE,  body |-> [message |-> "no quote"]] }

\* fetch_quote: requests.get, response.json() and xcom_push; the status is
\* never looked at.
FetchQuote ==
  LET t == "fetch_quote" IN
  /\ At(t, "start")
  /\ \E r \in SelfResponses :
       /\ resp' = [status |-> r.status, body |-> r.body]
       /\ IF r.status = 0
            THEN Raise(t, "ConnectionError") /\ UNCHANGED xcom
            ELSE IF ~ r.json
              THEN Raise(t, "JSONDecodeError") /\ UNCHANGED xcom
              ELSE /\ xcom' = [xcom EXCEPT ![t] = [kind |-> "dict", val |-> <<r.body>>]]
                   /\ Succeed(t)
  /\ UNCHANGED <<dag, gates, run, hour, tries, conns, table, mailbox, deliveries, loads>>

\* data.get(k, '')
GetOr(d, k) == IF k \in DOMAIN d THEN d[k] ELSE ""

\* generate_csv_and_send_email: the CSV row is built with defaults, the
\* message is sent; every SMTP error is re-raised.
SendCsvEmail ==
  LET t == "send_csv_email"
      data == xcom["fetch_quote"].val[1]
      csv == <<GetOr(data, "quote"), GetOr(data, "author"), GetOr(data, "type")>>
  IN
  /\ At(t, "start")
  /\ \E ok \in BOOLEAN :
       /\ deliveries' = AfterSendmail(deliveries, ok)
       /\ IF ok
            THEN /\ mailbox' = mailbox \cup {[task |-> t, batch |-> Tag(t), body |-> csv]}
                 /\ Succeed(t)
            ELSE Raise(t, "SMTPException") /\ UNCHANGED mailbox
  /\ UNCHANGED <<dag, gates, run, hour, tries, xcom, conns, table, resp, loads>>

\* psycopg2.connect(...)
SelfConnect ==
  LET t == "load_quote" IN
  /\ At(t, "start")
  /\ \E ok \in BOOLEAN :
       IF ok
         THEN /\ conns' = OpenConn(t)
              /\ loads' = StartLoad(t, 1)
              /\ Goto(t, "insert")
         ELSE Raise(t, "OperationalError") /\ UNCHANGED <<conns, loads>>
  /\ UNCHANGED <<dag, gates, run, hour, tries, xcom, table, mailbox, deliveries, resp>>

\* CREATE TABLE IF NOT EXISTS and the INSERT of data['quote'], data['author'],
\* data['type'].  Whatever raises leaves the function with the connection
\* open.
SelfInsert ==
  LET t == "load_quote"
      data == xcom["fetch_quote"].val[1]
      row == [quote |-> data.quote, author |-> data.author, type |-> data.type, batch |-> Tag(t)]
  IN
  /\ At(t, "insert")
  /\ \E ok \in BOOLEAN :
       IF ~ (QuoteKeys \subseteq DOMAIN data)
         THEN /\ Raise(t, "KeyError")
              /\ loads' = EndLoad(t, "raised")
              /\ UNCHANGED <<conns, table>>
         ELSE IF ok
           THEN /\ conns' = ExecOn(t, row)
                /\ table' = TableAfterExecute(table, row)
                /\ Goto(t, "commit")
                /\ UNCHANGED loads
           ELSE /\ Raise(t, "DatabaseError")
                /\ loads' = EndLoad(t, "raised")
                /\ UNCHANGED <<conns, table>>
  /\ UNCHANGED <<dag, gates, run, hour, tries, xcom, mailbox, deliveries, resp>>

\* conn.commit()
SelfCommit ==
  LET t == "load_quote" IN
  /\ At(t, "commit")
  /\ \E ok \in BOOLEAN :
       IF ok
         THEN /\ table' = Commit(table, PendingOf(t))
              /\ conns' = {IF c \in MyConn(t) THEN [c EXCEPT !.pending = <<>>] ELSE c : c \in conns}
              /\ loads' = EndLoad(t, "committed")
              /\ Goto(t, "close")
         ELSE /\ Raise(t, "DatabaseError")
              /\ loads' = EndLoad(t, "raised")
              /\ UNCHANGED <<conns, table>>
  /\ UNCHANGED <<dag, gates, run, hour, tries, xcom, mailbox, deliveries, resp>>

\* cur.close(); conn.close().  When one of them raises, the commit has
\* already happened and the exception fails the attempt.
SelfClose ==
  LET t == "load_quote" IN
  /\ At(t, "close")
  /\ \E ok \in BOOLEAN :
       IF ok
         THEN conns' = CloseConn(t) /\ Succeed(t)
         ELSE Raise(t, "InterfaceError") /\ UNCHANGED conns
  /\ UNCHANGED <<dag, gates, run, hour, tries, xcom, table, mailbox, deliveries, resp, loads>>

\* ------------------------------------------------------- the quotes script
\* External ids the quotes API hands out.  None is written 0.
QuoteIds == {41, 42}
None == 0

\* Responses: no response, a rejected request, quotes, a 2xx body with no
\* id, and a 2xx body with no content.
QuotesResponses ==
  {[status |-> 0, body |-> [message |-> 0]], [status |-> 403, body |-> [message |-> 0]]}
    \cup {[status |-> 200, body |-> [id |-> i, content |-> "text"]] : i \in QuoteIds}
    \cup {[status |-> 200, body |-> [content |-> "text"]], [status |-> 200, body |-> [id |-> 41]]}

\* fetch_quote of the script: every RequestException is caught and None
\* returned; absent keys become None fields.
fetch_quote(r) ==
  IF r.status = 0 \/ IsHttpError(r.status)
    THEN [kind |-> "none", val |-> <<>>]
    ELSE [kind |-> "dict",
          val |-> << [id |-> IF "id" \in DOMAIN r.body THEN r.body.id ELSE None,
                      content |-> IF "content" \in DOMAIN r.body THEN r.body.content ELSE "None"] >>]

\* transform_data of the script: None stays None, a quote becomes a
\* one-row frame.
transform_data(q) ==
  IF q.kind = "none" THEN q ELSE [kind |-> "df", val |-> q.val]

\* quote = fetch_quote(); df = transform_data(quote)
QuotesFetch ==
  LET t == "quotes_main" IN
  /\ At(t, "start")
  /\ \E r \in QuotesResponses :
       /\ resp' = r
       /\ xcom' = [xcom EXCEPT ![t] = transform_data(fetch_quote(r))]
  /\ Goto(t, "load")
  /\ UNCHANGED <<dag, gates, run, hour, tries, conns, table, mailbox, deliveries, loads>>

\* load_data up to psycopg2.connect: nothing to do without a frame.  When
\* connect raises, connection is unbound and the handler's
\* connection.rollback() raises out of load_data.
QuotesConnect ==
  LET t == "quotes_main"
      df == xcom[t]
  IN
  /\ At(t, "load")
  /\ \E ok \in BOOLEAN :
       IF df.kind = "none"
         THEN Succeed(t) /\ UNCHANGED <<conns, loads>>
         ELSE IF ok
           THEN /\ conns' = OpenConn(t)
                /\ loads' = StartLoad(t, Len(df.val))
                /\ Goto(t, "insert")
           ELSE Raise(t, "UnboundLocalError") /\ UNCHANGED <<conns, loads>>
  /\ UNCHANGED <<dag, gates, run, hour, tries, xcom, table, mailbox, deliveries, resp>>

\* INSERT ... ON CONFLICT (id) DO NOTHING against the committed rows and
\* the transaction's own: a row whose id is stored is not inserted.
InsertOnConflict(tbl, pending, row) ==
  IF \E i \in 1..Len(tbl) : tbl[i].id = row.id THEN pending
  ELSE IF \E i \in 1..Len(pending) : pending[i].id = row.id THEN pending
  ELSE Append(pending, row)

\* The table DDL and the loop over the frame's row.  A row without id is
\* skipped; the insert of any other row is followed by the "Inserted row"
\* print.  A failing statement (content is NOT NULL) is caught: rollback,
\* then the finally clause, and load_data returns.
QuotesInsert ==
  LET t == "quotes_main"
      rec == xcom[t].val[1]
      row == [id |-> rec.id, content |-> rec.content, batch |-> Tag(t)]
  IN
  /\ At(t, "insert")
  /\ \E ok \in BOOLEAN :
       IF rec.id = None
         THEN /\ Goto(t, "commit")
              /\ UNCHANGED <<conns, loads, table>>
         ELSE IF ok /\ rec.content # "None"
           THEN /\ conns' = {IF c \in MyConn(t)
                               THEN [c EXCEPT !.pending = InsertOnConflict(table, @, row)]
                               ELSE c : c \in conns}
                /\ table' = IF InsertOnConflict(table, <<>>, row) = <<>>
                              THEN table ELSE TableAfterExecute(table, row)
                /\ loads' = Reported(t, 1)
                /\ Goto(t, "commit")
           ELSE /\ conns' = CloseConn(t)
                /\ loads' = EndLoad(t, "rolled back")
                /\ Succeed(t)
                /\ UNCHANGED table
  /\ UNCHANGED <<dag, gates, run, hour, tries, xcom, mailbox, deliveries, resp>>

\* connection.commit(); a failing commit is caught like any other error.
\* The finally clause closes cursor and connection either way.
QuotesCommit ==
  LET t == "quotes_main" IN
  /\ At(t, "commit")
  /\ \E ok \in BOOLEAN :
       IF ok
         THEN /\ table' = Commit(table, PendingOf(t))
              /\ loads' = EndLoad(t, "committed")
         ELSE /\ loads' = EndLoad(t, "rolled back")
              /\ UNCHANGED table
  /\ conns' = CloseConn(t)
  /\ Succeed(t)
  /\ UNCHANGED <<dag, gates, run, hour, tries, xcom, mailbox, deliveries, resp>>

\* -------------------------------------------------------------------- Next
Next ==
  \/ \E t \in AllTasks : Schedule(t)
  \/ \E t \in AllTasks : MarkUpstreamFailed(t)
  \/ NextRun
  \/ FetchCryptoPrices
  \/ InsertConnect
  \/ InsertRow
  \/ InsertCommit
  \/ InsertClose
  \/ CheckSendTime
  \/ SendEmail
  \/ FetchData
  \/ TransformData
  \/ HealthConnect
  \/ HealthBatch
  \/ HealthCommit
  \/ FetchQuote
  \/ SendCsvEmail
  \/ SelfConnect
  \/ SelfInsert
  \/ SelfCommit
  \/ SelfClose
  \/ QuotesFetch
  \/ QuotesConnect
  \/ QuotesInsert
  \/ QuotesCommit

Spec == Init /\ [][Next]_vars

\* A step inside the current Run: the scheduler starting or giving up a task
\* instance, or a worker executing a step of a callable.
RunStep == Next /\ run' = run

\* The scheduler and its workers keep going while something can be done in
\* the Run; nothing is assumed about a next Run being started.
FairSpec == Spec /\ WF_vars(RunStep)

\* ================================================================== claims
RunDone == \A t \in Tasks : state[t] \in Terminal

\* Number of committed rows written by the load attempt with batch tag b.
RowsOf(b) == Cardinality({i \in 1..Len(table) : table[i].batch = b})

\* C1: a task is Running only while every declared upstream task is
\* Succeeded in the same Run; so two tasks joined by a dependency path are
\* never Running together, and only unrelated tasks run concurrently.
C1_UpstreamBeforeRunning ==
  \A t \in Tasks :
    state[t] = "Running" =>
      /\ \A u \in Upstream(t) : state[u] = "Succeeded"
      /\ \A u \in Tasks : state[u] = "Running" /\ u # t => u \notin Ancestors(t) /\ t \notin Ancestors(u)

\* C1 witness: the two parallel branches of self_confidence_dag run together.
C1_Witness ==
  /\ dag = "self_confidence_dag"
  /\ state["send_csv_email"] = "Running"
  /\ state["load_quote"] = "Running"
  /\ state["fetch_quote"] = "Succeeded"

\* C2: a task is attempted at most retries + 1 times in a Run; it is
\* terminal Failed exactly after retries + 1 failed attempts, and a task with
\* a retry left is not terminal.
C2_RetryBound ==
  \A t \in Tasks :
    /\ tries[t] <= Retries(t) + 1
    /\ state[t] = "Failed" => tries[t] = Retries(t) + 1
    /\ state[t] = "UpForRetry" => tries[t] <= Retries(t)

\* C2 witness: a crypto task (retries = 1) Failed after its second attempt,
\* and a healthcare task (retries = 0) is covered by the same formula.
C2_Witness ==
  /\ dag = "crypto_price_dag"
  /\ state["insert_into_postgres"] = "Failed"
  /\ tries["insert_into_postgres"] = 2

\* C3: when a task A is terminal Failed, no task B downstream of A has run
\* or runs in that Run, B holds no result, and once the Run is over B is in
\* the not-executed terminal state for a failed upstream, which is not Failed.
C3_SkipPropagation ==
  \A b \in Tasks : \A a \in Ancestors(b) :
    state[a] = "Failed" =>
      /\ state[b] \in {"Pending", "UpstreamFailed"}
      /\ tries[b] = 0
      /\ xcom[b] = NoValue
      /\ RunDone => state[b] = "UpstreamFailed"

\* C3 witness: healthcare's fetch Failed and the whole chain below it ended
\* not executed.
C3_Witness ==
  /\ dag = "healthcare_joblist"
  /\ RunDone
  /\ state["fetch_data"] = "Failed"
  /\ state["transform_data"] = "UpstreamFailed"
  /\ state["load_to_postgres"] = "UpstreamFailed"

\* C4: once check_send_time has run in a Run whose logical hour is not 8, the
\* gate is Succeeded (never Failed) and send_email is Skipped: no attempt of
\* it was made and no report of that Run was mailed.
C4_GateFalseSkips ==
  (dag = "crypto_price_dag" /\ ~ check_send_time(hour) /\ tries["check_send_time"] > 0
     /\ state["check_send_time"] # "Running") =>
    /\ state["check_send_time"] = "Succeeded"
    /\ state["send_email"] = "Skipped"
    /\ tries["send_email"] = 0
    /\ \A m \in mailbox : m.batch[1] # run

\* C4 witness: a Run at another hour whose gate has answered false.
C4_Witness ==
  /\ dag = "crypto_price_dag"
  /\ hour # SendHour
  /\ state["check_send_time"] = "Succeeded"
  /\ xcom["check_send_time"].val = <<FALSE>>
  /\ state["send_email"] = "Skipped"

\* C5: the committed table holds either none or all of the rows of a load
\* attempt, and none of the rows of an attempt that raised or was rolled
\* back, whatever it had executed.
C5_LoadAtomic ==
  \A l \in loads :
    /\ RowsOf(l.batch) \in {0, l.size}
    /\ l.outcome # "committed" => RowsOf(l.batch) = 0

\* C5 witness: a crypto load raised with some but not all of its rows
\* executed, after an earlier batch was committed.
C5_Witness ==
  /\ Len(table) > 0
  /\ \E l \in loads : \E c \in conns :
       /\ l.outcome = "raised"
       /\ c.batch = l.batch
       /\ Len(c.pending) > 0
       /\ Len(c.pending) < l.size

\* C6: every connection that is open belongs to a load attempt that is still
\* running; none outlives the attempt that opened it.
C6_ConnectionsReleased ==
  \A c \in conns : state[c.task] = "Running" /\ c.batch = Tag(c.task)

\* C7: the quotes table holds one row per external id, a load of stored ids
\* leaves it unchanged, and the rows a load reports as inserted are the rows
\* it newly inserted.
C7_KeyedIdempotent ==
  dag = "quotes" =>
    /\ \A i, j \in 1..Len(table) : table[i].id = table[j].id => i = j
    /\ \A l \in CommittedLoads : l.reported = RowsOf(l.batch)

\* C8: the append-only loaders never deduplicate: every committed load of k
\* records holds exactly k rows of the table, and n committed loads leave
\* n * k rows (k = 3 for crypto_prices, 1 for self_confidence).
C8_AppendOnly ==
  dag \in {"crypto_price_dag", "self_confidence_dag"} =>
    LET k == IF dag = "crypto_price_dag" THEN 3 ELSE 1 IN
    /\ \A l \in CommittedLoads : l.size = k /\ RowsOf(l.batch) = k
    /\ Len(table) = k * Cardinality(CommittedLoads)

\* C8 witness: the same price data loaded in two Runs is stored twice.
C8_Witness ==
  /\ dag = "crypto_price_dag"
  /\ Cardinality(CommittedLoads) = 2
  /\ Len(table) = 6
  /\ \A i \in 1..3 : [table[i] EXCEPT !.batch = table[i + 3].batch] = table[i + 3]

\* The well-formed records of a list of items, in order.
WellFormed(items) == SelectSeq(items, LAMBDA it : it.shape = "record")

\* C9: transform_data, given a list B, fails if and only if B is empty or has
\* no well-formed record, and then with the empty-result error; otherwise it
\* outputs the well-formed records of B in order.
C9_TransformTotal ==
  (dag = "healthcare_joblist" /\ state["transform_data"] \in {"Succeeded", "Failed"}
     /\ xcom["fetch_data"].kind = "list") =>
    LET good == WellFormed(xcom["fetch_data"].val) IN
    /\ state["transform_data"] = "Failed" <=> good = <<>>
    /\ state["transform_data"] = "Failed" => err["transform_data"] = "ValueError"
    /\ state["transform_data"] = "Succeeded" =>
         xcom["transform_data"].val = [i \in 1..Len(good) |-> [id |-> good[i].id]]

\* The fetcher of the pipeline, and whether its call has returned normally.
Fetcher ==
  CASE dag = "crypto_price_dag" -> "fetch_crypto_prices"
    [] dag = "healthcare_joblist" -> "fetch_data"
    [] dag = "self_confidence_dag" -> "fetch_quote"
    [] OTHER -> "quotes_main"

FetchReturned ==
  IF dag = "quotes"
    THEN state["quotes_main"] = "Running" /\ pc["quotes_main"] # "start"
    ELSE state[Fetcher] = "Succeeded"

\* The response is a 2xx answer carrying the keys the pipeline reads.
GoodResponse ==
  /\ resp.status >= 200 /\ resp.status < 300
  /\ CASE dag = "crypto_price_dag" -> Coins \subseteq DOMAIN resp.body
       [] dag = "healthcare_joblist" -> resp.body.kind = "list" /\ resp.body.val # <<>>
       [] dag = "self_confidence_dag" -> QuoteKeys \subseteq DOMAIN resp.body
       [] OTHER -> {"id", "content"} \subseteq DOMAIN resp.body

\* C10: a fetch that ended as a success got a 2xx response with the expected
\* keys and handed a non-empty batch downstream.
C10_FetchNonEmptyOrFails ==
  FetchReturned => GoodResponse /\ xcom[Fetcher].kind # "none" /\ xcom[Fetcher].val # <<>>

\* C11: a load attempt that hit an error (it raised, or its transaction was
\* rolled back) ends as a failed attempt: its task is waiting for a retry or
\* Failed, never Succeeded.
C11_NoSilentLoadFailure ==
  \A l \in loads :
    (l.batch = Tag(l.task) /\ l.outcome \in {"raised", "rolled back"}) =>
      state[l.task] \in {"UpForRetry", "Failed"}

\* The notifier tasks, and the errors a failed delivery ends them with.
Notifiers == {"send_email", "send_csv_email"}

DeliveryFailed(t) == err[t] \in {"Exception", "SMTPException"}

Pulls(t) ==
  CASE t = "insert_into_postgres" -> {"fetch_crypto_prices"}
    [] t = "send_email"           -> {"fetch_crypto_prices"}
    [] t = "transform_data"       -> {"fetch_data"}
    [] t = "load_to_postgres"     -> {"transform_data"}
    [] t = "send_csv_email"       -> {"fetch_quote"}
    [] t = "load_quote"           -> {"fetch_quote"}
    [] OTHER                      -> {}

\* C13: a task that has started in this Run reads only values of tasks that
\* are Succeeded and whose value is complete; a value left behind by an
\* attempt that failed (state waiting for retry or Failed) has no reader.
C13_ReadsOnlySucceeded ==
  \A t \in Tasks :
    tries[t] > 0 =>
      \A u \in Pulls(t) : state[u] = "Succeeded" /\ xcom[u] # NoValue

\* fetch_data pushed the body and then failed: the value is stored, and
\* transform_data never ran.
C13_Witness ==
  /\ dag = "healthcare_joblist"
  /\ state["fetch_data"] = "Failed"
  /\ xcom["fetch_data"] # NoValue
  /\ state["transform_data"] = "UpstreamFailed"
  /\ tries["transform_data"] = 0

LeavesRoots(d) == {t \in TasksOf(d) : Upstream(t) = {}}

\* The tasks of a DAG without downstream tasks.
Leaves(d) == {t \in TasksOf(d) : Descendants(t) \cap TasksOf(d) = {}}

\* The state the scheduler gives the Run once no task instance is unfinished:
\* failed when a leaf task is failed or upstream_failed, else success.
RunState ==
  IF ~ RunDone THEN "Running"
  ELSE IF \E t \in Leaves(dag) : state[t] \in {"Failed", "UpstreamFailed"} THEN "Failed"
  ELSE "Succeeded"

\* C15: once every task of the Run is terminal, the Run is Succeeded exactly
\* when every task is Succeeded or Skipped by a false gate, and Failed when
\* some task is Failed or was not run because its upstream failed.
C15_RunState ==
  RunDone =>
    /\ RunState = "Succeeded" <=> \A t \in Tasks : state[t] \in {"Succeeded", "Skipped"}
    /\ (\E t \in Tasks : state[t] \in {"Failed", "UpstreamFailed"}) => RunState = "Failed"

\* A finished Run whose gate was false: the notifier is Skipped and the Run
\* Succeeded.
C15_Witness ==
  /\ dag = "crypto_price_dag"
  /\ RunDone
  /\ state["send_email"] = "Skipped"
  /\ RunState = "Succeeded"

\* C16: in crypto_price_dag the gate and the notifier start only after both
\* the fetcher and the loader are Succeeded, the notifier only in a Run whose
\* logical hour is the send hour; every report in the mailbox belongs to a
\* Run whose load was committed.
C16_GateAfterLoad ==
  dag = "crypto_price_dag" =>
    /\ \A t \in {"check_send_time", "send_email"} :
         tries[t] > 0 =>
           state["fetch_crypto_prices"] = "Succeeded" /\ state["insert_into_postgres"] = "Succeeded"
    /\ tries["send_email"] > 0 => hour = SendHour
    /\ \A m \in mailbox :
         \E l \in CommittedLoads : l.task = "insert_into_postgres" /\ l.batch[1] = m.batch[1]

\* A report was delivered in this Run, whose loader needed its retry.
C16_Witness ==
  /\ dag = "crypto_price_dag"
  /\ state["send_email"] = "Succeeded"
  /\ tries["insert_into_postgres"] = 2
  /\ \E m \in mailbox : m.batch[1] = run

\* The loader tasks that run under a retry policy.
RetriedLoaders == {"insert_into_postgres", "load_quote"}

\* Rows of the table written by the attempts of Run r.
RunRows(r) == Cardinality({i \in 1..Len(table) : table[i].batch[1] = r})

\* C17: over all attempts of a retried loader in a Run, the table holds at
\* most one copy of the Run's batch, and exactly one once the loader is
\* Succeeded.
C17_OneCopyPerRun ==
  \A l \in loads :
    (l.task \in RetriedLoaders /\ l.batch = Tag(l.task)) =>
      /\ RunRows(run) <= l.size
      /\ state[l.task] = "Succeeded" => RunRows(run) = l.size

\* C18: in self_confidence_dag each of the two branches depends on the
\* fetcher alone: a branch is never skipped, it is left unrun only when
\* fetch_quote Failed, and whenever fetch_quote is Succeeded a branch that
\* waits for an attempt can start it, whatever the state of the other branch.
C18_BranchesIndependent ==
  dag = "self_confidence_dag" =>
    \A b \in {"send_csv_email", "load_quote"} :
      /\ state[b] # "Skipped"
      /\ state[b] = "UpstreamFailed" => state["fetch_quote"] = "Failed"
      /\ tries[b] > 0 => state["fetch_quote"] = "Succeeded"
      /\ (state["fetch_quote"] = "Succeeded" /\ state[b] \in {"Pending", "UpForRetry"})
           => ENABLED Schedule(b)

\* The first Run stored its quote and mailed nothing; the second Run has
\* ended with the mail delivered and the loader Failed.
C18_Witness ==
  /\ dag = "self_confidence_dag"
  /\ run = 2
  /\ RunRows(1) = 1
  /\ \A m \in mailbox : m.batch[1] # 1
  /\ RunDone
  /\ state["send_csv_email"] = "Succeeded"
  /\ state["load_quote"] = "Failed"
  /\ RunRows(2) = 0

\* C19: under weak fairness of the steps of a Run, every Run reaches a state
\* in which each of its tasks is terminal: no task instance stays Pending,
\* Running or waiting for a retry forever.  A next Run starts only from such
\* a state, so the behaviour is again and again in one: were some Run never
\* to end, no task would be terminal together from then on.
C19_EveryRunTerminates == []<>RunDone

\* A Run after the first has ended, one of its tasks having used its retry.
C19_Witness ==
  /\ run > 1
  /\ RunDone
  /\ \E t \in Tasks : tries[t] = 2 /\ state[t] = "Failed"
  /\ \E t \in Tasks : state[t] = "UpstreamFailed"

====
